---- MODULE Spec2Model ----
(***************************************************************************)
(* MobileNetV2 (mindnlp port): channel rounding, the inverted-residual     *)
(* block, the stride plan of the backbone, and the output conventions of   *)
(* the three forward passes.                                               *)
(*                                                                         *)
(* Tensors are symbolic: a tensor is the sequence of the applications that *)
(* produced it, each one a tuple <<module, index, part, arguments>>.  The  *)
(* numeric kernels (convolution, batch norm, pooling, interpolation, the   *)
(* losses) are the tensor library's and stay uninterpreted.                *)
(*                                                                         *)
(* Python's Optional[x] is a sequence: <<>> is None, <<v>> is the value v. *)
(* The floats depth_multiplier and expand_ratio are held in quarters       *)
(* (4 is 1.0), which are exact in binary floating point.                   *)
(***************************************************************************)
EXTENDS Integers, Sequences, FiniteSets, TLC

VARIABLES
    config,   \* the MobileNetV2Config object the model was built from and reads
    model,    \* the module that was constructed
    call,     \* the last operation and its arguments
    out,      \* what it returned or raised
    ran       \* the sub-models the last forward pass of a task model ran, in order

vars == <<config, model, call, out, ran>>

-----------------------------------------------------------------------------
(* Bounds of the model *)

MaxValue == 40
MaxDivisor == 9
MaxMinValue == 10
MaxLabels == 2
MaxChannels == 3
MaxStride == 3
MaxLabelSize == 2

-----------------------------------------------------------------------------
(* Python values *)

NoneV == <<>>

Some(v) == <<v>>

Max(a, b) == IF a >= b THEN a ELSE b

Quarter == 4

\* int(round(n / d)) for n >= 0, d > 0: Python 3 rounds halves to even
round(n, d) ==
    LET q == n \div d
        r == n % d
    IN  IF 2 * r < d THEN q
        ELSE IF 2 * r > d THEN q + 1
        ELSE IF q % 2 = 0 THEN q ELSE q + 1

-----------------------------------------------------------------------------
(* make_divisible, apply_depth_multiplier *)

\* the 10% correction left out
make_divisible_no_fix(value, divisor, min_value) ==
    LET min_value1 == IF min_value = NoneV THEN divisor ELSE min_value[1]
    IN  Max(min_value1, ((value + divisor \div 2) \div divisor) * divisor)

\* new_value < 0.9 * value is 10 * new_value < 9 * value on integers;
\* int(value + divisor / 2) truncates, so it is value + divisor \div 2
make_divisible(value, divisor, min_value) ==
    LET min_value1 == IF min_value = NoneV THEN divisor ELSE min_value[1]
        new_value == Max(min_value1, ((value + divisor \div 2) \div divisor) * divisor)
    IN  IF 10 * new_value < 9 * value THEN new_value + divisor ELSE new_value

apply_depth_multiplier(cfg, channels) ==
    make_divisible(round(channels * cfg.depth_multiplier, Quarter),
                   cfg.depth_divisible_by, cfg.min_depth)

-----------------------------------------------------------------------------
(* MobileNetV2Config: the fields the modelling code reads *)

DefaultConfig ==
    [ num_channels |-> 3,
      num_labels |-> 2,
      problem_type |-> NoneV,
      output_hidden_states |-> FALSE,
      use_return_dict |-> TRUE,
      output_stride |-> 32,
      depth_multiplier |-> 4,
      depth_divisible_by |-> 8,
      min_depth |-> Some(8),
      expand_ratio |-> 24,
      first_layer_is_expansion |-> TRUE,
      finegrained_output |-> TRUE,
      semantic_loss_ignore_index |-> 255 ]

NoModel == [cls |-> "NoneType"]

NoCall == [op |-> "none"]

NoOutcome == [exc |-> "", kind |-> "none"]

Return(v) == [exc |-> "", kind |-> "return", val |-> v]

Raise(e) == [exc |-> e, kind |-> "raise"]

-----------------------------------------------------------------------------
(* Tensors and the values a forward pass returns *)

Tensor(history) == [kind |-> "Tensor", val |-> history]

Tuple(items) == [kind |-> "tuple", val |-> items]

\* one application of a module, or of a library function, to a tensor
Apply(features, name) == Tensor(Append(features.val, name))

\* residual + features; features is computed from residual, so the addend is
\* named by the length of its history, a prefix of the history of features
Add(residual, features) ==
    Apply(features, <<"add", Len(residual.val), "residual", <<>> >>)

\* the entries of a Python list that are not None
NotNone(items) ==
    LET kept == SelectSeq(items, LAMBDA v : v # NoneV)
    IN  [k \in 1..Len(kept) |-> kept[k][1]]

-----------------------------------------------------------------------------
(* MobileNetV2ConvLayer *)

\* name is the layer's place in its parent; bias, padding and the normalization's
\* eps only parameterise the library's kernels and are not kept

MobileNetV2ConvLayer(name, in_channels, out_channels, kernel_size, stride, groups, dilation, use_activation) ==
    IF in_channels % groups # 0 \/ out_channels % groups # 0
    THEN Raise("ValueError")
    ELSE [ exc |-> "", cls |-> "MobileNetV2ConvLayer", name |-> name,
           in_channels |-> in_channels, out_channels |-> out_channels,
           kernel_size |-> kernel_size, stride |-> stride, groups |-> groups,
           dilation |-> dilation, use_activation |-> use_activation ]

ConvLayerForward(conv, features) == Apply(features, conv.name)

-----------------------------------------------------------------------------
(* MobileNetV2InvertedResidual *)

\* the skip connection whenever the channel counts agree, whatever the stride
MobileNetV2InvertedResidual_skip_on_channels(cfg, owner, index, in_channels, out_channels, stride, dilation) ==
    LET expanded_channels ==
            make_divisible(round(in_channels * cfg.expand_ratio, Quarter),
                           cfg.depth_divisible_by, cfg.min_depth)
    IN  IF stride \notin {1, 2} THEN Raise("ValueError")
        ELSE [ exc |-> "", cls |-> "MobileNetV2InvertedResidual",
               use_residual |-> (in_channels = out_channels),
               expand_1x1 |-> MobileNetV2ConvLayer(<<owner, index, "expand_1x1", <<>> >>,
                                  in_channels, expanded_channels, 1, 1, 1, 1, TRUE),
               conv_3x3 |-> MobileNetV2ConvLayer(<<owner, index, "conv_3x3", <<>> >>,
                                  expanded_channels, expanded_channels, 3, stride,
                                  expanded_channels, dilation, TRUE),
               reduce_1x1 |-> MobileNetV2ConvLayer(<<owner, index, "reduce_1x1", <<>> >>,
                                  expanded_channels, out_channels, 1, 1, 1, 1, FALSE) ]

\* owner and index name the block inside its parent module
MobileNetV2InvertedResidual(cfg, owner, index, in_channels, out_channels, stride, dilation) ==
    LET expanded_channels ==
            make_divisible(round(in_channels * cfg.expand_ratio, Quarter),
                           cfg.depth_divisible_by, cfg.min_depth)
        expand_1x1 == MobileNetV2ConvLayer(<<owner, index, "expand_1x1", <<>> >>,
                          in_channels, expanded_channels, 1, 1, 1, 1, TRUE)
        conv_3x3 == MobileNetV2ConvLayer(<<owner, index, "conv_3x3", <<>> >>,
                          expanded_channels, expanded_channels, 3, stride,
                          expanded_channels, dilation, TRUE)
        reduce_1x1 == MobileNetV2ConvLayer(<<owner, index, "reduce_1x1", <<>> >>,
                          expanded_channels, out_channels, 1, 1, 1, 1, FALSE)
    IN  IF stride \notin {1, 2} THEN Raise("ValueError")
        ELSE IF expand_1x1.exc # "" THEN expand_1x1
        ELSE IF conv_3x3.exc # "" THEN conv_3x3
        ELSE IF reduce_1x1.exc # "" THEN reduce_1x1
        ELSE [ exc |-> "", cls |-> "MobileNetV2InvertedResidual",
               use_residual |-> (stride = 1) /\ (in_channels = out_channels),
               expand_1x1 |-> expand_1x1, conv_3x3 |-> conv_3x3,
               reduce_1x1 |-> reduce_1x1 ]

InvertedResidualForward(block, features) ==
    LET residual == features
        f1 == ConvLayerForward(block.expand_1x1, features)
        f2 == ConvLayerForward(block.conv_3x3, f1)
        f3 == ConvLayerForward(block.reduce_1x1, f2)
    IN  IF block.use_residual THEN Add(residual, f3) ELSE f3

-----------------------------------------------------------------------------
(* MobileNetV2Stem *)

MobileNetV2Stem(cfg, in_channels, expanded_channels, out_channels) ==
    [ exc |-> "", cls |-> "MobileNetV2Stem",
      first_conv |-> MobileNetV2ConvLayer(<<"conv_stem", 0, "first_conv", <<>> >>,
                         in_channels, expanded_channels, 3, 2, 1, 1, TRUE),
      expand_1x1 |-> IF cfg.first_layer_is_expansion THEN NoneV
                     ELSE Some(MobileNetV2ConvLayer(<<"conv_stem", 0, "expand_1x1", <<>> >>,
                                   expanded_channels, expanded_channels, 1, 1, 1, 1, TRUE)),
      conv_3x3 |-> MobileNetV2ConvLayer(<<"conv_stem", 0, "conv_3x3", <<>> >>,
                       expanded_channels, expanded_channels, 3, 1, expanded_channels, 1, TRUE),
      reduce_1x1 |-> MobileNetV2ConvLayer(<<"conv_stem", 0, "reduce_1x1", <<>> >>,
                         expanded_channels, out_channels, 1, 1, 1, 1, FALSE) ]

StemForward(stem, features) ==
    LET f1 == ConvLayerForward(stem.first_conv, features)
        f2 == IF stem.expand_1x1 # NoneV THEN ConvLayerForward(stem.expand_1x1[1], f1) ELSE f1
        f3 == ConvLayerForward(stem.conv_3x3, f2)
    IN  ConvLayerForward(stem.reduce_1x1, f3)

-----------------------------------------------------------------------------
(* MobileNetV2Model *)

\* Output channels for the projection layers
channels == <<16, 24, 24, 32, 32, 32, 64, 64, 64, 64, 96, 96, 96, 160, 160, 160, 320>>

\* Strides for the depthwise layers
strides == <<2, 1, 2, 1, 1, 2, 1, 1, 1, 1, 1, 1, 2, 1, 1, 1>>

NumLayers == 16

\* the layer keeps its own stride once the output stride is reached
LayerLoopBody_keeps_stride(cfg, chans, st) ==
    LET i == st.i
        reached == st.current_stride = cfg.output_stride
        layer_stride == strides[i + 1]
        layer_dilation == IF reached THEN st.dilation ELSE 1
    IN  [ i |-> i + 1,
          current_stride |-> IF reached THEN st.current_stride
                             ELSE st.current_stride * layer_stride,
          dilation |-> IF reached THEN st.dilation * strides[i + 1] ELSE st.dilation,
          layer |-> Append(st.layer,
                           MobileNetV2InvertedResidual(cfg, "layer", i, chans[i + 1],
                               chans[i + 2], layer_stride, layer_dilation)) ]

\* one pass of `for i in range(16)`; Python's channels[i] is chans[i + 1]
LayerLoopBody(cfg, chans, st) ==
    LET i == st.i
        reached == st.current_stride = cfg.output_stride
        layer_stride == IF reached THEN 1 ELSE strides[i + 1]
        layer_dilation == IF reached THEN st.dilation ELSE 1
    IN  [ i |-> i + 1,
          current_stride |-> IF reached THEN st.current_stride
                             ELSE st.current_stride * layer_stride,
          dilation |-> IF reached THEN st.dilation * strides[i + 1] ELSE st.dilation,
          layer |-> Append(st.layer,
                           MobileNetV2InvertedResidual(cfg, "layer", i, chans[i + 1],
                               chans[i + 2], layer_stride, layer_dilation)) ]

RECURSIVE LayerLoop(_, _, _)
LayerLoop(cfg, chans, st) ==
    IF st.i = NumLayers THEN st
    ELSE LayerLoop(cfg, chans, LayerLoopBody(cfg, chans, st))

MobileNetV2Model(cfg, add_pooling_layer) ==
    LET chans == [k \in 1..Len(channels) |-> apply_depth_multiplier(cfg, channels[k])]
        conv_stem == MobileNetV2Stem(cfg, cfg.num_channels, apply_depth_multiplier(cfg, 32),
                                     chans[1])
        built == LayerLoop(cfg, chans,
                           [i |-> 0, current_stride |-> 2, dilation |-> 1, layer |-> <<>>])
        output_channels == IF cfg.finegrained_output /\ cfg.depth_multiplier < Quarter
                           THEN 1280
                           ELSE apply_depth_multiplier(cfg, 1280)
    IN  IF \E k \in 1..NumLayers : built.layer[k].exc # ""
        THEN Raise("ValueError")
        ELSE [ exc |-> "", cls |-> "MobileNetV2Model",
               conv_stem |-> conv_stem,
               layer |-> built.layer,
               conv_1x1 |-> MobileNetV2ConvLayer(<<"conv_1x1", 0, "", <<>> >>,
                                chans[Len(chans)], output_channels, 1, 1, 1, 1, TRUE),
               pooler |-> add_pooling_layer ]

\* one pass of `for i, layer_module in enumerate(self.layer)`
ForwardLoopBody(layer, st, output_hidden_states) ==
    LET hidden_states == InvertedResidualForward(layer[st.i + 1], st.hidden_states)
    IN  [ i |-> st.i + 1,
          hidden_states |-> hidden_states,
          all_hidden_states |->
              IF output_hidden_states
              THEN Some(Tuple(Append(st.all_hidden_states[1].val, hidden_states)))
              ELSE st.all_hidden_states ]

RECURSIVE ForwardLoop(_, _, _)
ForwardLoop(layer, st, output_hidden_states) ==
    IF st.i = Len(layer) THEN st
    ELSE ForwardLoop(layer, ForwardLoopBody(layer, st, output_hidden_states),
                     output_hidden_states)

\* the loop over self.layer, entered with the stem's output
ForwardLayers(layer, stem_output, output_hidden_states) ==
    ForwardLoop(layer,
                [ i |-> 0, hidden_states |-> stem_output,
                  all_hidden_states |-> IF output_hidden_states THEN Some(Tuple(<<>>))
                                        ELSE NoneV ],
                output_hidden_states)

\* the stem output is collected too
ModelForward_collects_stem(self, cfg, pixel_values, output_hidden_states, return_dict) ==
    LET output_hidden_states1 == IF output_hidden_states # NoneV THEN output_hidden_states[1]
                                 ELSE cfg.output_hidden_states
        return_dict1 == IF return_dict # NoneV THEN return_dict[1] ELSE cfg.use_return_dict
        stem_output == StemForward(self.conv_stem, pixel_values[1])
        done == ForwardLayers(self.layer, stem_output, output_hidden_states1)
        all_hidden_states ==
            IF output_hidden_states1
            THEN Some(Tuple(<<stem_output>> \o done.all_hidden_states[1].val))
            ELSE NoneV
        last_hidden_state == ConvLayerForward(self.conv_1x1, done.hidden_states)
        pooled_output ==
            IF self.pooler
            THEN Some(Apply(Apply(last_hidden_state, <<"pooler", 0, "", <<>> >>),
                            <<"ops", 0, "flatten", <<1>> >>))
            ELSE NoneV
    IN  IF pixel_values = NoneV THEN Raise("ValueError")
        ELSE IF ~return_dict1
        THEN Return(Tuple(NotNone(<<Some(last_hidden_state), pooled_output, all_hidden_states>>)))
        ELSE Return([ kind |-> "BaseModelOutputWithPoolingAndNoAttention",
                      last_hidden_state |-> Some(last_hidden_state),
                      pooler_output |-> pooled_output,
                      hidden_states |-> all_hidden_states ])

\* the tuple is returned with its None entries left in
ModelForward_keeps_none(self, cfg, pixel_values, output_hidden_states, return_dict) ==
    LET output_hidden_states1 == IF output_hidden_states # NoneV THEN output_hidden_states[1]
                                 ELSE cfg.output_hidden_states
        return_dict1 == IF return_dict # NoneV THEN return_dict[1] ELSE cfg.use_return_dict
        stem_output == StemForward(self.conv_stem, pixel_values[1])
        done == ForwardLayers(self.layer, stem_output, output_hidden_states1)
        last_hidden_state == ConvLayerForward(self.conv_1x1, done.hidden_states)
        pooled_output ==
            IF self.pooler
            THEN Some(Apply(Apply(last_hidden_state, <<"pooler", 0, "", <<>> >>),
                            <<"ops", 0, "flatten", <<1>> >>))
            ELSE NoneV
    IN  IF pixel_values = NoneV THEN Raise("ValueError")
        ELSE IF ~return_dict1
        THEN Return(Tuple(<<last_hidden_state,
                            IF pooled_output = NoneV THEN [kind |-> "NoneType"]
                            ELSE pooled_output[1],
                            IF done.all_hidden_states = NoneV THEN [kind |-> "NoneType"]
                            ELSE done.all_hidden_states[1]>>))
        ELSE Return([ kind |-> "BaseModelOutputWithPoolingAndNoAttention",
                      last_hidden_state |-> Some(last_hidden_state),
                      pooler_output |-> pooled_output,
                      hidden_states |-> done.all_hidden_states ])

\* MobileNetV2Model.forward
ModelForward(self, cfg, pixel_values, output_hidden_states, return_dict) ==
    LET output_hidden_states1 == IF output_hidden_states # NoneV THEN output_hidden_states[1]
                                 ELSE cfg.output_hidden_states
        return_dict1 == IF return_dict # NoneV THEN return_dict[1] ELSE cfg.use_return_dict
        stem_output == StemForward(self.conv_stem, pixel_values[1])
        done == ForwardLayers(self.layer, stem_output, output_hidden_states1)
        last_hidden_state == ConvLayerForward(self.conv_1x1, done.hidden_states)
        pooled_output ==
            IF self.pooler
            THEN Some(Apply(Apply(last_hidden_state, <<"pooler", 0, "", <<>> >>),
                            <<"ops", 0, "flatten", <<1>> >>))
            ELSE NoneV
    IN  IF pixel_values = NoneV THEN Raise("ValueError")
        ELSE IF ~return_dict1
        THEN Return(Tuple(NotNone(<<Some(last_hidden_state), pooled_output,
                                    done.all_hidden_states>>)))
        ELSE Return([ kind |-> "BaseModelOutputWithPoolingAndNoAttention",
                      last_hidden_state |-> Some(last_hidden_state),
                      pooler_output |-> pooled_output,
                      hidden_states |-> done.all_hidden_states ])

-----------------------------------------------------------------------------
(* MobileNetV2ForImageClassification *)

Loss(fn, input, target, args) ==
    [kind |-> "loss", fn |-> fn, input |-> input, target |-> target, args |-> args]

MobileNetV2ForImageClassification(cfg) ==
    LET mobilenet_v2 == MobileNetV2Model(cfg, TRUE)
    IN  IF mobilenet_v2.exc # "" THEN mobilenet_v2
        ELSE [ exc |-> "", cls |-> "MobileNetV2ForImageClassification",
               num_labels |-> cfg.num_labels,
               mobilenet_v2 |-> mobilenet_v2,
               classifier |-> IF cfg.num_labels > 0 THEN "Linear" ELSE "Identity" ]

\* the problem type chosen when config.problem_type is None
ChooseProblemType(num_labels, labels) ==
    IF num_labels = 1 THEN "regression"
    ELSE IF num_labels > 1 /\ labels.dtype \in {"int64", "int32"}
    THEN "single_label_classification"
    ELSE "multi_label_classification"

\* the problem type is chosen anew on every call with labels
ClassificationForward_rechooses(self, cfg, pixel_values, output_hidden_states, labels, return_dict) ==
    LET return_dict1 == IF return_dict # NoneV THEN return_dict[1] ELSE cfg.use_return_dict
        outputs == ModelForward(self.mobilenet_v2, cfg, pixel_values, output_hidden_states,
                                Some(return_dict1))
        pooled_output == IF return_dict1 THEN outputs.val.pooler_output[1]
                         ELSE outputs.val.val[2]
        logits == Apply(Apply(pooled_output, <<"dropout", 0, "", <<>> >>),
                        <<"classifier", 0, "", <<>> >>)
        problem_type == IF labels # NoneV
                        THEN Some(ChooseProblemType(self.num_labels, labels[1]))
                        ELSE cfg.problem_type
        loss ==
            IF labels = NoneV THEN NoneV
            ELSE IF problem_type = Some("regression")
            THEN IF self.num_labels = 1
                 THEN Some(Loss("mse_loss",
                                Apply(logits, <<"Tensor", 0, "squeeze", <<>> >>),
                                Apply(labels[1], <<"Tensor", 0, "squeeze", <<>> >>), <<>>))
                 ELSE Some(Loss("mse_loss", logits, labels[1], <<>>))
            ELSE IF problem_type = Some("single_label_classification")
            THEN Some(Loss("cross_entropy",
                           Apply(logits, <<"Tensor", 0, "view", <<-1, self.num_labels>> >>),
                           Apply(labels[1], <<"Tensor", 0, "view", <<-1>> >>), <<>>))
            ELSE IF problem_type = Some("multi_label_classification")
            THEN Some(Loss("binary_cross_entropy_with_logits", logits, labels[1], <<>>))
            ELSE NoneV
    IN  IF outputs.exc # "" THEN [ outcome |-> outputs, problem_type |-> cfg.problem_type,
                                      ran |-> <<"mobilenet_v2">> ]
        ELSE [ problem_type |-> problem_type,
               ran |-> <<"mobilenet_v2", "dropout", "classifier">>,
               outcome |->
                 IF ~return_dict1
                 THEN LET output == <<logits>> \o SubSeq(outputs.val.val, 3, Len(outputs.val.val))
                      IN  Return(Tuple(IF loss # NoneV THEN <<loss[1]>> \o output ELSE output))
                 ELSE Return([ kind |-> "ImageClassifierOutputWithNoAttention",
                               loss |-> loss,
                               logits |-> Some(logits),
                               hidden_states |-> outputs.val.hidden_states ]) ]

\* MobileNetV2ForImageClassification.forward: the outcome, config.problem_type as
\* the call leaves it, and the sub-models the call ran, in order
ClassificationForward(self, cfg, pixel_values, output_hidden_states, labels, return_dict) ==
    LET return_dict1 == IF return_dict # NoneV THEN return_dict[1] ELSE cfg.use_return_dict
        outputs == ModelForward(self.mobilenet_v2, cfg, pixel_values, output_hidden_states,
                                Some(return_dict1))
        pooled_output == IF return_dict1 THEN outputs.val.pooler_output[1]
                         ELSE outputs.val.val[2]
        logits == Apply(Apply(pooled_output, <<"dropout", 0, "", <<>> >>),
                        <<"classifier", 0, "", <<>> >>)
        problem_type == IF labels # NoneV /\ cfg.problem_type = NoneV
                        THEN Some(ChooseProblemType(self.num_labels, labels[1]))
                        ELSE cfg.problem_type
        loss ==
            IF labels = NoneV THEN NoneV
            ELSE IF problem_type = Some("regression")
            THEN IF self.num_labels = 1
                 THEN Some(Loss("mse_loss",
                                Apply(logits, <<"Tensor", 0, "squeeze", <<>> >>),
                                Apply(labels[1], <<"Tensor", 0, "squeeze", <<>> >>), <<>>))
                 ELSE Some(Loss("mse_loss", logits, labels[1], <<>>))
            ELSE IF problem_type = Some("single_label_classification")
            THEN Some(Loss("cross_entropy",
                           Apply(logits, <<"Tensor", 0, "view", <<-1, self.num_labels>> >>),
                           Apply(labels[1], <<"Tensor", 0, "view", <<-1>> >>), <<>>))
            ELSE IF problem_type = Some("multi_label_classification")
            THEN Some(Loss("binary_cross_entropy_with_logits", logits, labels[1], <<>>))
            ELSE NoneV
    IN  IF outputs.exc # "" THEN [ outcome |-> outputs, problem_type |-> cfg.problem_type,
                                      ran |-> <<"mobilenet_v2">> ]
        ELSE [ problem_type |-> problem_type,
               ran |-> <<"mobilenet_v2", "dropout", "classifier">>,
               outcome |->
                 IF ~return_dict1
                 THEN LET output == <<logits>> \o SubSeq(outputs.val.val, 3, Len(outputs.val.val))
                      IN  Return(Tuple(IF loss # NoneV THEN <<loss[1]>> \o output ELSE output))
                 ELSE Return([ kind |-> "ImageClassifierOutputWithNoAttention",
                               loss |-> loss,
                               logits |-> Some(logits),
                               hidden_states |-> outputs.val.hidden_states ]) ]

-----------------------------------------------------------------------------
(* MobileNetV2DeepLabV3Plus, MobileNetV2ForSemanticSegmentation *)

MobileNetV2DeepLabV3Plus(cfg) ==
    [ exc |-> "", cls |-> "MobileNetV2DeepLabV3Plus",
      conv_pool |-> MobileNetV2ConvLayer(<<"segmentation_head", 0, "conv_pool", <<>> >>,
                        apply_depth_multiplier(cfg, 320), 256, 1, 1, 1, 1, "relu"),
      conv_aspp |-> MobileNetV2ConvLayer(<<"segmentation_head", 0, "conv_aspp", <<>> >>,
                        apply_depth_multiplier(cfg, 320), 256, 1, 1, 1, 1, "relu"),
      conv_projection |-> MobileNetV2ConvLayer(<<"segmentation_head", 0, "conv_projection", <<>> >>,
                              512, 256, 1, 1, 1, 1, "relu"),
      classifier |-> MobileNetV2ConvLayer(<<"segmentation_head", 0, "classifier", <<>> >>,
                         256, cfg.num_labels, 1, 1, 1, 1, FALSE) ]

\* the head joins two branches of its input; towards its caller it is one
\* application to the features it is given
DeepLabV3PlusForward(head, features) == Apply(features, <<"segmentation_head", 0, "", <<>> >>)

MobileNetV2ForSemanticSegmentation(cfg) ==
    LET mobilenet_v2 == MobileNetV2Model(cfg, FALSE)
    IN  IF mobilenet_v2.exc # "" THEN mobilenet_v2
        ELSE [ exc |-> "", cls |-> "MobileNetV2ForSemanticSegmentation",
               num_labels |-> cfg.num_labels,
               mobilenet_v2 |-> mobilenet_v2,
               segmentation_head |-> MobileNetV2DeepLabV3Plus(cfg) ]

\* the number of labels is checked only where the loss is computed
SegmentationForward_late_check(self, cfg, pixel_values, labels, output_hidden_states, return_dict) ==
    LET output_hidden_states1 == IF output_hidden_states # NoneV THEN output_hidden_states[1]
                                 ELSE cfg.output_hidden_states
        return_dict1 == IF return_dict # NoneV THEN return_dict[1] ELSE cfg.use_return_dict
        outputs == ModelForward(self.mobilenet_v2, cfg, pixel_values, Some(TRUE),
                                Some(return_dict1))
        encoder_hidden_states == IF return_dict1 THEN outputs.val.hidden_states[1]
                                 ELSE outputs.val.val[2]
        logits == DeepLabV3PlusForward(self.segmentation_head,
                      encoder_hidden_states.val[Len(encoder_hidden_states.val)])
        loss ==
            IF labels # NoneV
            THEN LET upsampled_logits ==
                         Apply(logits, <<"F", 0, "interpolate", labels[1].shape>>)
                 IN  Some(Loss("cross_entropy", upsampled_logits, labels[1],
                               <<cfg.semantic_loss_ignore_index>>))
            ELSE NoneV
    IN  IF outputs.exc # "" THEN [outcome |-> outputs, ran |-> <<"mobilenet_v2">>]
        ELSE IF labels # NoneV /\ cfg.num_labels = 1
        THEN [outcome |-> Raise("ValueError"), ran |-> <<"mobilenet_v2", "segmentation_head">>]
        ELSE [ ran |-> <<"mobilenet_v2", "segmentation_head">>,
               outcome |->
                 IF ~return_dict1
                 THEN LET output ==
                              IF output_hidden_states1
                              THEN <<logits>> \o SubSeq(outputs.val.val, 2, Len(outputs.val.val))
                              ELSE <<logits>> \o SubSeq(outputs.val.val, 3, Len(outputs.val.val))
                      IN  Return(Tuple(IF loss # NoneV THEN <<loss[1]>> \o output ELSE output))
                 ELSE Return([ kind |-> "SemanticSegmenterOutput",
                               loss |-> loss,
                               logits |-> Some(logits),
                               hidden_states |-> IF output_hidden_states1
                                                 THEN outputs.val.hidden_states ELSE NoneV,
                               attentions |-> NoneV ]) ]

\* MobileNetV2ForSemanticSegmentation.forward: the outcome, and the sub-models
\* the call ran, in order
SegmentationForward(self, cfg, pixel_values, labels, output_hidden_states, return_dict) ==
    LET output_hidden_states1 == IF output_hidden_states # NoneV THEN output_hidden_states[1]
                                 ELSE cfg.output_hidden_states
        return_dict1 == IF return_dict # NoneV THEN return_dict[1] ELSE cfg.use_return_dict
        outputs == ModelForward(self.mobilenet_v2, cfg, pixel_values, Some(TRUE),
                                Some(return_dict1))
        encoder_hidden_states == IF return_dict1 THEN outputs.val.hidden_states[1]
                                 ELSE outputs.val.val[2]
        logits == DeepLabV3PlusForward(self.segmentation_head,
                      encoder_hidden_states.val[Len(encoder_hidden_states.val)])
        loss ==
            IF labels # NoneV
            THEN LET upsampled_logits ==
                         Apply(logits, <<"F", 0, "interpolate", labels[1].shape>>)
                 IN  Some(Loss("cross_entropy", upsampled_logits, labels[1],
                               <<cfg.semantic_loss_ignore_index>>))
            ELSE NoneV
    IN  IF labels # NoneV /\ cfg.num_labels = 1
        THEN [outcome |-> Raise("ValueError"), ran |-> <<>>]
        ELSE IF outputs.exc # "" THEN [outcome |-> outputs, ran |-> <<"mobilenet_v2">>]
        ELSE [ ran |-> <<"mobilenet_v2", "segmentation_head">>,
               outcome |->
                 IF ~return_dict1
                 THEN LET output ==
                              IF output_hidden_states1
                              THEN <<logits>> \o SubSeq(outputs.val.val, 2, Len(outputs.val.val))
                              ELSE <<logits>> \o SubSeq(outputs.val.val, 3, Len(outputs.val.val))
                      IN  Return(Tuple(IF loss # NoneV THEN <<loss[1]>> \o output ELSE output))
                 ELSE Return([ kind |-> "SemanticSegmenterOutput",
                               loss |-> loss,
                               logits |-> Some(logits),
                               hidden_states |-> IF output_hidden_states1
                                                 THEN outputs.val.hidden_states ELSE NoneV,
                               attentions |-> NoneV ]) ]

-----------------------------------------------------------------------------
(* The pure functions, applied to bounded inputs *)

MinValues == {NoneV} \cup {Some(m) : m \in 1..MaxMinValue}

DepthMultipliers == {1, 2, 3, 4, 6}

\* Output channels for the projection layers, the stem's 32 and the head's 1280
ChannelCounts == {16, 24, 32, 64, 96, 160, 320, 1280}

MakeDivisibleCalls ==
    { [op |-> "make_divisible", value |-> value, divisor |-> divisor, min_value |-> min_value] :
        value \in 1..MaxValue, divisor \in 1..MaxDivisor, min_value \in MinValues }

DepthConfigs ==
    { [DefaultConfig EXCEPT !.depth_multiplier = dm, !.depth_divisible_by = divisor,
                            !.min_depth = min_value] :
        dm \in DepthMultipliers, divisor \in 1..MaxDivisor, min_value \in MinValues }

ApplyDepthMultiplierCalls ==
    { [op |-> "apply_depth_multiplier", cfg |-> cfg, channels |-> count] :
        cfg \in DepthConfigs, count \in ChannelCounts }

\* the arguments are drawn first, the function is applied by the one step that follows
InitFn ==
    /\ config = DefaultConfig
    /\ model = NoModel
    /\ call \in MakeDivisibleCalls \cup ApplyDepthMultiplierCalls
    /\ out = NoOutcome
    /\ ran = <<>>

CallMakeDivisible ==
    /\ call.op = "make_divisible"
    /\ out = NoOutcome
    /\ out' = Return(make_divisible(call.value, call.divisor, call.min_value))
    /\ UNCHANGED <<config, model, call, ran>>

CallApplyDepthMultiplier ==
    /\ call.op = "apply_depth_multiplier"
    /\ out = NoOutcome
    /\ out' = Return(apply_depth_multiplier(call.cfg, call.channels))
    /\ UNCHANGED <<config, model, call, ran>>

NextFn == CallMakeDivisible \/ CallApplyDepthMultiplier

SpecFn == InitFn /\ [][NextFn]_vars

\* the arguments make_divisible received in the last call
MdValue ==
    IF call.op = "make_divisible" THEN call.value
    ELSE round(call.channels * call.cfg.depth_multiplier, Quarter)

MdDivisor ==
    IF call.op = "make_divisible" THEN call.divisor ELSE call.cfg.depth_divisible_by

MdMinValue ==
    LET m == IF call.op = "make_divisible" THEN call.min_value ELSE call.cfg.min_depth
    IN  IF m = NoneV THEN MdDivisor ELSE m[1]

MdCalled == call.op \in {"make_divisible", "apply_depth_multiplier"} /\ out.kind = "return"

\* C1: make_divisible returns a channel count divisible by divisor, for every
\* positive value, divisor and allowed min_value, also through apply_depth_multiplier
C1_ResultDivisible == MdCalled => out.val % MdDivisor = 0

\* C2: the result r never rounds down by more than 10% (10 * r >= 9 * value)
\* and is at least min_value (divisor when min_value is None)
C2_NoMoreThanTenPercent ==
    MdCalled => (10 * out.val >= 9 * MdValue /\ out.val >= MdMinValue)

\* a call where plain rounding goes down by more than 10% and the correction acts
C2_Witness ==
    /\ call.op = "make_divisible"
    /\ out.kind = "return"
    /\ call.value = 11 /\ call.divisor = 8 /\ call.min_value = NoneV
    /\ out.val = 16

-----------------------------------------------------------------------------
(* The models: construction, then forward passes *)

OptionalBool == {NoneV, Some(TRUE), Some(FALSE)}

ProblemTypes ==
    {NoneV, Some("regression"), Some("single_label_classification"),
     Some("multi_label_classification")}

OutputStrides == {2, 4, 8, 16, 32, 64}

\* the configurations a backbone is built from
ModelConfigs ==
    { [DefaultConfig EXCEPT !.output_hidden_states = output_hidden_states,
                            !.use_return_dict = use_return_dict,
                            !.output_stride = output_stride,
                            !.depth_multiplier = depth_multiplier,
                            !.first_layer_is_expansion = first_layer_is_expansion] :
        output_hidden_states \in BOOLEAN, use_return_dict \in BOOLEAN,
        output_stride \in OutputStrides, depth_multiplier \in {2, 4},
        first_layer_is_expansion \in BOOLEAN }

\* the configurations an inverted-residual block is built from
BlockConfigs ==
    { [DefaultConfig EXCEPT !.expand_ratio = expand_ratio] : expand_ratio \in {4, 6, 24} }

\* the configurations a classification model is built from
ClassificationConfigs ==
    { [DefaultConfig EXCEPT !.num_labels = num_labels,
                            !.problem_type = problem_type,
                            !.use_return_dict = use_return_dict] :
        num_labels \in 0..MaxLabels, problem_type \in ProblemTypes,
        use_return_dict \in BOOLEAN }

\* the configurations a segmentation model is built from
SegmentationConfigs ==
    { [DefaultConfig EXCEPT !.num_labels = num_labels,
                            !.output_hidden_states = output_hidden_states,
                            !.use_return_dict = use_return_dict,
                            !.semantic_loss_ignore_index = semantic_loss_ignore_index] :
        num_labels \in 0..MaxLabels, output_hidden_states \in BOOLEAN,
        use_return_dict \in BOOLEAN, semantic_loss_ignore_index \in {255, -100} }

PixelValues == Tensor(<< <<"pixel_values", 0, "", <<>> >> >>)

Labels(dtype, shape) ==
    [kind |-> "Tensor", dtype |-> dtype, shape |-> shape,
     val |-> << <<"labels", 0, "", <<>> >> >>]

Dtypes == {"int64", "int32", "float32"}

ClassificationLabels == {NoneV} \cup {Some(Labels(dtype, <<>>)) : dtype \in Dtypes}

SegmentationLabels ==
    {NoneV} \cup {Some(Labels("int64", <<h, h>>)) : h \in 1..MaxLabelSize}

InitWith(configs) ==
    /\ config \in configs
    /\ model = NoModel
    /\ call = NoCall
    /\ out = NoOutcome
    /\ ran = <<>>

\* a constructor either leaves the module or raises
Constructed(op, made) ==
    /\ model = NoModel
    /\ out = NoOutcome
    /\ call' = op
    /\ model' = IF made.exc = "" THEN made ELSE NoModel
    /\ out' = IF made.exc = "" THEN Return(NoneV) ELSE made
    /\ UNCHANGED <<config, ran>>

NewInvertedResidual ==
    \E in_channels \in 1..MaxChannels, out_channels \in 1..MaxChannels,
       stride \in 0..MaxStride, dilation \in 1..2 :
        Constructed([op |-> "MobileNetV2InvertedResidual", in_channels |-> in_channels,
                     out_channels |-> out_channels, stride |-> stride, dilation |-> dilation],
                    MobileNetV2InvertedResidual(config, "block", 0, in_channels, out_channels,
                                                stride, dilation))

NewModel ==
    \E add_pooling_layer \in BOOLEAN :
        Constructed([op |-> "MobileNetV2Model", add_pooling_layer |-> add_pooling_layer],
                    MobileNetV2Model(config, add_pooling_layer))

NewForImageClassification ==
    Constructed([op |-> "MobileNetV2ForImageClassification"],
                MobileNetV2ForImageClassification(config))

NewForSemanticSegmentation ==
    Constructed([op |-> "MobileNetV2ForSemanticSegmentation"],
                MobileNetV2ForSemanticSegmentation(config))

ForwardInvertedResidual ==
    /\ model.cls = "MobileNetV2InvertedResidual"
    /\ call' = [op |-> "MobileNetV2InvertedResidual.forward", features |-> PixelValues]
    /\ out' = Return(InvertedResidualForward(model, PixelValues))
    /\ UNCHANGED <<config, model, ran>>

ForwardModel ==
    /\ model.cls = "MobileNetV2Model"
    /\ \E pixel_values \in {NoneV, Some(PixelValues)},
          output_hidden_states \in OptionalBool, return_dict \in OptionalBool :
          /\ call' = [op |-> "MobileNetV2Model.forward", pixel_values |-> pixel_values,
                      output_hidden_states |-> output_hidden_states,
                      return_dict |-> return_dict]
          /\ out' = ModelForward(model, config, pixel_values, output_hidden_states, return_dict)
    /\ UNCHANGED <<config, model, ran>>

ForwardForImageClassification ==
    /\ model.cls = "MobileNetV2ForImageClassification"
    /\ \E pixel_values \in {NoneV, Some(PixelValues)}, labels \in ClassificationLabels,
          output_hidden_states \in OptionalBool, return_dict \in OptionalBool :
          LET done == ClassificationForward(model, config, pixel_values, output_hidden_states,
                                            labels, return_dict)
          IN  /\ call' = [op |-> "MobileNetV2ForImageClassification.forward",
                          pixel_values |-> pixel_values, labels |-> labels,
                          output_hidden_states |-> output_hidden_states,
                          return_dict |-> return_dict]
              /\ out' = done.outcome
              /\ config' = [config EXCEPT !.problem_type = done.problem_type]
              /\ ran' = done.ran
    /\ UNCHANGED model

ForwardForSemanticSegmentation ==
    /\ model.cls = "MobileNetV2ForSemanticSegmentation"
    /\ \E pixel_values \in {NoneV, Some(PixelValues)}, labels \in SegmentationLabels,
          output_hidden_states \in OptionalBool, return_dict \in OptionalBool :
          LET done == SegmentationForward(model, config, pixel_values, labels,
                                          output_hidden_states, return_dict)
          IN  /\ call' = [op |-> "MobileNetV2ForSemanticSegmentation.forward",
                          pixel_values |-> pixel_values, labels |-> labels,
                          output_hidden_states |-> output_hidden_states,
                          return_dict |-> return_dict]
              /\ out' = done.outcome
              /\ ran' = done.ran
    /\ UNCHANGED <<config, model>>

\* the backbone
Init == InitWith(ModelConfigs)

Next == NewModel \/ ForwardModel

Spec == Init /\ [][Next]_vars

\* one inverted-residual block
InitBlock == InitWith(BlockConfigs)

NextBlock == NewInvertedResidual \/ ForwardInvertedResidual

SpecBlock == InitBlock /\ [][NextBlock]_vars

\* the image-classification model
InitClassification == InitWith(ClassificationConfigs)

NextClassification == NewForImageClassification \/ ForwardForImageClassification

SpecClassification == InitClassification /\ [][NextClassification]_vars

\* the semantic-segmentation model
InitSegmentation == InitWith(SegmentationConfigs)

NextSegmentation == NewForSemanticSegmentation \/ ForwardForSemanticSegmentation

SpecSegmentation == InitSegmentation /\ [][NextSegmentation]_vars

-----------------------------------------------------------------------------
(* What the forward passes return *)

Returned(op) == call.op = op /\ out.kind = "return"

\* an argument that defaults to a configuration field when it is None
Resolved(argument, default) == IF argument # NoneV THEN argument[1] ELSE default

IsTuple(v) == v.kind = "tuple"

\* the loss in a task model's output, None when there is none
LossOf(outcome) ==
    IF IsTuple(outcome.val)
    THEN IF Len(outcome.val.val) > 0 /\ outcome.val.val[1].kind = "loss"
         THEN Some(outcome.val.val[1]) ELSE NoneV
    ELSE outcome.val.loss

Conv1x1 == <<"conv_1x1", 0, "", <<>> >>

Pooled(last_hidden_state) ==
    Tensor(last_hidden_state.val \o << <<"pooler", 0, "", <<>> >>, <<"ops", 0, "flatten", <<1>> >> >>)

\* C3: with labels given, config.problem_type None becomes regression when
\* num_labels = 1, single_label_classification when num_labels > 1 and the labels
\* are int64 or int32, multi_label_classification otherwise; a problem type already
\* set is used as is; the loss is mse for regression, cross-entropy for single-label,
\* binary cross-entropy with logits for multi-label
C3_ProblemTypeSelectsLoss ==
    [][ ( /\ call'.op = "MobileNetV2ForImageClassification.forward"
          /\ out'.kind = "return"
          /\ call'.labels # NoneV )
        => LET labels == call'.labels[1]
               chosen == IF model.num_labels = 1 THEN "regression"
                         ELSE IF model.num_labels > 1 /\ labels.dtype \in {"int64", "int32"}
                         THEN "single_label_classification"
                         ELSE "multi_label_classification"
               used == IF config.problem_type = NoneV THEN chosen ELSE config.problem_type[1]
               loss == LossOf(out')
           IN  /\ config'.problem_type = Some(used)
               /\ loss # NoneV
               /\ used = "regression" => loss[1].fn = "mse_loss"
               /\ used = "single_label_classification" => loss[1].fn = "cross_entropy"
               /\ used = "multi_label_classification"
                     => loss[1].fn = "binary_cross_entropy_with_logits"
      ]_vars

\* float labels with two classes scored by cross-entropy: a problem type that was
\* set beforehand, where the choice would have been multi_label_classification
C3_Witness ==
    /\ Returned("MobileNetV2ForImageClassification.forward")
    /\ call.labels # NoneV
    /\ call.labels[1].dtype = "float32"
    /\ model.num_labels = 2
    /\ LossOf(out) # NoneV
    /\ LossOf(out)[1].fn = "cross_entropy"

\* C4: without return_dict the backbone returns the tuple of last_hidden_state,
\* pooled_output (iff built with a pooling layer) and the hidden states (iff
\* output_hidden_states), in this order, 1 to 3 elements; with return_dict it
\* returns the same values as three fields, None for the absent ones
C4_ReturnDictOrTuple ==
    Returned("MobileNetV2Model.forward") =>
        LET return_dict == Resolved(call.return_dict, config.use_return_dict)
            output_hidden_states ==
                Resolved(call.output_hidden_states, config.output_hidden_states)
            n == 1 + (IF model.pooler THEN 1 ELSE 0) + (IF output_hidden_states THEN 1 ELSE 0)
            v == out.val
        IN  IF ~return_dict
            THEN /\ IsTuple(v)
                 /\ Len(v.val) = n
                 /\ n \in 1..3
                 /\ v.val[1].kind = "Tensor"
                 /\ v.val[1].val[Len(v.val[1].val)] = Conv1x1
                 /\ model.pooler => v.val[2] = Pooled(v.val[1])
                 /\ output_hidden_states => v.val[n].kind = "tuple"
            ELSE /\ v.kind = "BaseModelOutputWithPoolingAndNoAttention"
                 /\ v.last_hidden_state # NoneV
                 /\ v.last_hidden_state[1].kind = "Tensor"
                 /\ v.last_hidden_state[1].val[Len(v.last_hidden_state[1].val)] = Conv1x1
                 /\ v.pooler_output = (IF model.pooler THEN Some(Pooled(v.last_hidden_state[1]))
                                       ELSE NoneV)
                 /\ (v.hidden_states # NoneV) = output_hidden_states
                 /\ output_hidden_states => v.hidden_states[1].kind = "tuple"

\* a tuple of one element only: no pooling layer, no hidden states
C4_Witness ==
    /\ Returned("MobileNetV2Model.forward")
    /\ IsTuple(out.val)
    /\ Len(out.val.val) = 1
    /\ ~model.pooler

\* the hidden states and the last hidden state in what the backbone returned
HiddenStatesOf(outcome) ==
    IF IsTuple(outcome.val)
    THEN LET last == outcome.val.val[Len(outcome.val.val)]
         IN  IF last.kind = "tuple" THEN Some(last) ELSE NoneV
    ELSE outcome.val.hidden_states

LastHiddenStateOf(outcome) ==
    IF IsTuple(outcome.val) THEN outcome.val.val[1] ELSE outcome.val.last_hidden_state[1]

\* C5: output_hidden_states is the argument, else the configuration's; when false
\* nothing is collected; when true the tuple has one entry per inverted-residual
\* layer (16), entry k the output of layer k, so neither the stem output nor the
\* final 1x1 convolution's output, the last entry being that convolution's input
C5_HiddenStatesPerLayer ==
    Returned("MobileNetV2Model.forward") =>
        LET output_hidden_states ==
                Resolved(call.output_hidden_states, config.output_hidden_states)
            collected == HiddenStatesOf(out)
            last_hidden_state == LastHiddenStateOf(out)
            stem_output == StemForward(model.conv_stem, call.pixel_values[1])
            entry(k) == IF k = 0 THEN stem_output ELSE collected[1].val[k]
        IN  IF ~output_hidden_states
            THEN collected = NoneV
            ELSE /\ collected # NoneV
                 /\ Len(collected[1].val) = NumLayers
                 /\ Len(model.layer) = NumLayers
                 /\ \A k \in 1..NumLayers :
                        /\ entry(k) = InvertedResidualForward(model.layer[k], entry(k - 1))
                        /\ entry(k) # stem_output
                        /\ entry(k) # last_hidden_state
                 /\ last_hidden_state =
                        ConvLayerForward(model.conv_1x1, entry(NumLayers))

\* hidden states asked for by the argument against the configuration's default
C5_Witness ==
    /\ Returned("MobileNetV2Model.forward")
    /\ call.output_hidden_states = Some(TRUE)
    /\ ~config.output_hidden_states
    /\ HiddenStatesOf(out) # NoneV
    /\ Len(HiddenStatesOf(out)[1].val) = 16

\* C6: the block applies expand 1x1, depthwise 3x3, reduce 1x1 in this order and
\* adds its input to the result iff stride = 1 and in_channels = out_channels;
\* constructing it with a stride other than 1 or 2 raises ValueError
C6_InvertedResidual ==
    /\ call.op = "MobileNetV2InvertedResidual" /\ call.stride \notin {1, 2}
          => out.exc = "ValueError"
    /\ Returned("MobileNetV2InvertedResidual.forward") =>
          LET input == call.features
              reduced == Tensor(input.val \o << <<"block", 0, "expand_1x1", <<>> >>,
                                                <<"block", 0, "conv_3x3", <<>> >>,
                                                <<"block", 0, "reduce_1x1", <<>> >> >>)
              skip == /\ model.conv_3x3.stride = 1
                      /\ model.expand_1x1.in_channels = model.reduce_1x1.out_channels
          IN  out.val = IF skip THEN Add(input, reduced) ELSE reduced

\* equal channel counts but stride 2: no skip connection
C6_Witness ==
    /\ Returned("MobileNetV2InvertedResidual.forward")
    /\ model.conv_3x3.stride = 2
    /\ model.expand_1x1.in_channels = model.reduce_1x1.out_channels
    /\ Len(out.val.val) = Len(call.features.val) + 3

\* C7: with labels given and config.num_labels = 1 the segmentation forward raises
\* ValueError before the backbone or the head runs; otherwise with labels the loss
\* is the cross-entropy of the logits upsampled to the labels' height and width,
\* ignoring config.semantic_loss_ignore_index; without labels the loss is None
C7_SegmentationLoss ==
    call.op = "MobileNetV2ForSemanticSegmentation.forward" =>
        /\ (call.labels # NoneV /\ config.num_labels = 1)
              => (out.exc = "ValueError" /\ ran = <<>>)
        /\ (call.labels # NoneV /\ config.num_labels # 1 /\ out.kind = "return")
              => LET logits == IF IsTuple(out.val) THEN out.val.val[2] ELSE out.val.logits[1]
                     labels == call.labels[1]
                 IN  LossOf(out) =
                         Some(Loss("cross_entropy",
                                   Apply(logits, <<"F", 0, "interpolate", labels.shape>>),
                                   labels, <<config.semantic_loss_ignore_index>>))
        /\ (call.labels = NoneV /\ out.kind = "return") => LossOf(out) = NoneV

\* the call with labels and a single label class, refused
C7_Witness ==
    /\ call.op = "MobileNetV2ForSemanticSegmentation.forward"
    /\ call.labels # NoneV
    /\ call.pixel_values # NoneV
    /\ config.num_labels = 1
    /\ out.exc = "ValueError"

\* the stride in front of layer k: the stem's 2 times the strides of the layers before it
RECURSIVE RunningStride(_, _)
RunningStride(layer, k) ==
    IF k = 1 THEN 2 ELSE RunningStride(layer, k - 1) * layer[k - 1].conv_3x3.stride

\* C8: for output_stride in {2, 4, 8, 16, 32} the stem stride 2 times the strides of
\* the 16 layers is output_stride; a layer built once the running stride equals
\* output_stride has stride 1, a layer built before that has dilation 1
C8_StridePlan ==
    (model.cls = "MobileNetV2Model" /\ config.output_stride \in {2, 4, 8, 16, 32}) =>
        /\ Len(model.layer) = NumLayers
        /\ RunningStride(model.layer, NumLayers + 1) = config.output_stride
        /\ \A k \in 1..NumLayers :
              IF RunningStride(model.layer, k) = config.output_stride
              THEN model.layer[k].conv_3x3.stride = 1
              ELSE model.layer[k].conv_3x3.dilation = 1

\* output stride 8: reached after three layers, dilation 4 in the last layer
C8_Witness ==
    /\ model.cls = "MobileNetV2Model"
    /\ config.output_stride = 8
    /\ RunningStride(model.layer, 4) = 8
    /\ model.layer[4].conv_3x3.stride = 1
    /\ model.layer[NumLayers].conv_3x3.dilation = 4

====
